---- MODULE Spec2Model ----
(***************************************************************************)
(* A model of config_resolver 4.3.3 (src/config_resolver/core.py): the     *)
(* search-path resolution of Config._effective_path and the incremental    *)
(* load loop of Config.load with the gate Config.check_file /              *)
(* SecuredConfig.check_file.                                               *)
(*                                                                         *)
(* Strings are sequences of symbols (a symbol is one character or one      *)
(* opaque chunk such as "etc").  The empty sequence stands for both None   *)
(* and '' wherever the code only tests a value's truthiness.               *)
(***************************************************************************)
EXTENDS Integers, Sequences, FiniteSets, TLC

\* ------------------------------------------------------------------ bounds
MaxPath == 3        \* longest search path of the load specification
MaxMajor == 2       \* major numbers 1..MaxMajor occur in version texts
MaxMinor == 2       \* minor numbers 0..MaxMinor occur in version texts
MaxEnvLen == 4      \* longest <GROUP>_<APP>_PATH value (symbols)
MaxSearchLen == 3   \* longest search_path argument of the path specification
MaxXdgLen == 3      \* longest XDG_CONFIG_DIRS value (symbols)
MaxCalls == 2       \* calls of get_config by one caller
MaxLoads == 2       \* calls of load() on one instance

\* ------------------------------------------------------- program constants
pathsep == ":"
S_IRGRP == 32
S_IROTH == 4

\* ----------------------------------------------------------------- strings
StrsUpTo(A, n) == UNION {[1..k -> A] : k \in 0..n}

Truthy(s) == s # <<>>

startswith(s, c) == Len(s) > 0 /\ s[1] = c

endswith(s, c) == Len(s) > 0 /\ s[Len(s)] = c

\* str.split(sep) for a one-character separator: "" splits into [""]
RECURSIVE split(_, _)
split(s, sep) ==
    IF \A k \in 1..Len(s) : s[k] # sep
    THEN <<s>>
    ELSE LET k == CHOOSE j \in 1..Len(s) :
                      s[j] = sep /\ \A m \in 1..(j - 1) : s[m] # sep
         IN  <<SubSeq(s, 1, k - 1)>> \o split(SubSeq(s, k + 1, Len(s)), sep)

\* posixpath.join(a, b)
join(a, b) ==
    IF startswith(b, "/") THEN b
    ELSE IF a = <<>> \/ endswith(a, "/") THEN a \o b
    ELSE a \o <<"/">> \o b

HOME == <<"/", "home">>

\* os.path.expanduser for the current user
expanduser(s) ==
    IF startswith(s, "~") /\ (Len(s) = 1 \/ s[2] = "/")
    THEN HOME \o SubSeq(s, 2, Len(s))
    ELSE s

reversed(q) == [k \in 1..Len(q) |-> q[Len(q) + 1 - k]]

\* ------------------------------------------------------------ the identity
group_name == <<"G">>
app_name == <<"A">>
getcwd == <<"/", "cwd">>

EnvNames == {"PATH", "FILENAME", "XDG_CONFIG_DIRS", "XDG_CONFIG_HOME"}

\* ------------------------------------------------------------------- state
VARIABLES
    environ,        \* os.environ, restricted to the four variables read
    fs,             \* the files whose contents are fixed: name -> file
    search_path,    \* Config.search_path
    filename,       \* Config.filename; before get_config runs, its filename
                    \* argument
    require_load,   \* the require_load argument of load()
    secure,         \* TRUE iff the instance is a SecuredConfig
    version_arg,    \* the version argument of the constructor, <<>> if None
    version,        \* Config.version: <<>> (None) or <<major, minor, patch>>
    pc,             \* position in Config.load
    path,           \* local variable path of load()
    idx,            \* position of the for loop of load() in path
    active_path,    \* Config._active_path
    loaded_files,   \* Config._loaded_files
    parser,         \* the options held by the instance (ConfigParser state)
    error,          \* the exception that left load(), "" if none
    log,            \* records emitted on the instance's logger
    lookup_options, \* the caller's mapping handed to get_config
    filters,        \* the filters of the logger of the identity
    load_calls,     \* the number of calls of load() on the instance so far
    get_config_calls \* the number of calls of get_config so far

vars == <<environ, fs, search_path, filename, require_load, secure,
          version_arg, version, pc, path, idx, active_path, loaded_files, parser, error, log,
          lookup_options, filters, load_calls, get_config_calls>>

\* ------------------------------------------------- path/filename resolver
\* the XDG_CONFIG_DIRS entries kept in the order of the variable
get_xdg_dirs_in_order(env) ==
    LET config_dirs == env["XDG_CONFIG_DIRS"]
    IN  IF Truthy(config_dirs)
        THEN LET parts == split(config_dirs, ":")
             IN  [k \in 1..Len(parts) |->
                     join(join(parts[k], group_name), app_name)]
        ELSE << <<"/", "etc", "/", "xdg", "/">> \o group_name \o <<"/">>
                \o app_name >>

get_xdg_dirs(env) ==
    LET config_dirs == env["XDG_CONFIG_DIRS"]
    IN  IF Truthy(config_dirs)
        THEN LET parts == reversed(split(config_dirs, ":"))
             IN  [k \in 1..Len(parts) |->
                     join(join(parts[k], group_name), app_name)]
        ELSE << <<"/", "etc", "/", "xdg", "/">> \o group_name \o <<"/">>
                \o app_name >>

get_xdg_home(env) ==
    LET config_home == env["XDG_CONFIG_HOME"]
    IN  IF Truthy(config_home)
        THEN expanduser(join(join(config_home, group_name), app_name))
        ELSE expanduser(<<"~", "/", ".config", "/">> \o group_name
                        \o <<"/">> \o app_name)

default_path(env) ==
    << <<"/", "etc", "/">> \o group_name \o <<"/">> \o app_name >>
    \o get_xdg_dirs(env)
    \o << expanduser(<<"~", "/", ".">> \o group_name \o <<"/">> \o app_name),
          get_xdg_home(env),
          join(join(getcwd, <<".">> \o group_name), app_name) >>

\* the caller's filename taking precedence over the environment
effective_filename_caller_wins(fname, env) ==
    LET env_filename == env["FILENAME"]
    IN  IF Truthy(fname) THEN fname ELSE env_filename

effective_filename(fname, env) ==
    LET config_filename == IF Truthy(fname) THEN fname ELSE <<>>
        env_filename == env["FILENAME"]
    IN  IF Truthy(env_filename) THEN env_filename ELSE config_filename

\* the "+" entries put in front of the path instead of behind it
effective_path_plus_prepends(spath, env) ==
    LET path0 == IF Truthy(spath) THEN split(spath, pathsep)
                 ELSE default_path(env)
        env_path == env["PATH"]
    IN  IF Truthy(env_path) /\ startswith(env_path, "+")
        THEN split(SubSeq(env_path, 2, Len(env_path)), pathsep) \o path0
        ELSE IF Truthy(env_path)
        THEN split(env_path, pathsep)
        ELSE path0

\* the precedence of release 2.0: search_path overrides the environment
effective_path_search_path_wins(spath, env) ==
    LET env_path == env["PATH"]
        path0 == IF Truthy(env_path) /\ ~startswith(env_path, "+")
                 THEN split(env_path, pathsep)
                 ELSE default_path(env)
        path1 == IF Truthy(spath) THEN split(spath, pathsep) ELSE path0
    IN  IF Truthy(env_path) /\ startswith(env_path, "+")
        THEN path1 \o split(SubSeq(env_path, 2, Len(env_path)), pathsep)
        ELSE path1

\* search_path added to the default path instead of replacing it
effective_path_extends_default(spath, env) ==
    LET path0 == IF Truthy(spath)
                 THEN default_path(env) \o split(spath, pathsep)
                 ELSE default_path(env)
        env_path == env["PATH"]
    IN  IF Truthy(env_path) /\ startswith(env_path, "+")
        THEN path0 \o split(SubSeq(env_path, 2, Len(env_path)), pathsep)
        ELSE IF Truthy(env_path)
        THEN split(env_path, pathsep)
        ELSE path0

effective_path(spath, env) ==
    LET path0 == IF Truthy(spath) THEN split(spath, pathsep)
                 ELSE default_path(env)
        env_path == env["PATH"]
    IN  IF Truthy(env_path) /\ startswith(env_path, "+")
        THEN path0 \o split(SubSeq(env_path, 2, Len(env_path)), pathsep)
        ELSE IF Truthy(env_path)
        THEN split(env_path, pathsep)
        ELSE path0

\* ------------------------------------------------------------------- files
\* A file: whether it exists, whether ConfigParser can parse it, its
\* permission bits and its options as <<section, option, value>> triples.
AbsentFile == [exists |-> FALSE, parses |-> FALSE, mode |-> 0, doc |-> {}]

Modes == {384, 420}     \* 0o600, 0o644

Digits == 0..9

\* the text "<major>.<minor>" of a version
VersionText(major, minor) == <<ToString(major), ".", ToString(minor)>>

BadVersionText == <<"x">>

VersionTexts ==
    {BadVersionText}
    \cup {VersionText(ma, mi) : ma \in 1..MaxMajor, mi \in 0..MaxMinor}

\* the characters 0..9 and their values
DigitChars == {ToString(d) : d \in Digits}

DigitValue == [c \in DigitChars |-> CHOOSE d \in Digits : ToString(d) = c]

IsDigit(c) == c \in DigitChars

ToInt(c) == DigitValue[c]

\* distutils.version.StrictVersion accepts <int>.<int> and <int>.<int>.<int>
StrictVersionValid(text) ==
    \/ /\ Len(text) = 3
       /\ IsDigit(text[1]) /\ text[2] = "." /\ IsDigit(text[3])
    \/ /\ Len(text) = 5
       /\ IsDigit(text[1]) /\ text[2] = "." /\ IsDigit(text[3])
       /\ text[4] = "." /\ IsDigit(text[5])

\* StrictVersion(text).version
StrictVersion(text) ==
    <<ToInt(text[1]), ToInt(text[3]),
      IF Len(text) = 5 THEN ToInt(text[5]) ELSE 0>>

\* the contents a parseable file under one name can have: nothing, the user
\* option s.x (its value names the file it comes from), or s.x together with
\* a meta.version
FileDocs(name) ==
    {{}, {<<"s", "x", name>>}}
    \cup {{<<"s", "x", name>>, <<"meta", "version", t>>} : t \in VersionTexts}

\* the permission bits are read by a SecuredConfig only: for a plain Config
\* every file is taken to be world-readable
ModesSeen(sec) == IF sec THEN Modes ELSE {420}

FileKinds(name, sec) ==
    {AbsentFile,
     [exists |-> TRUE, parses |-> FALSE, mode |-> 420, doc |-> {}]}
    \cup {[exists |-> TRUE, parses |-> TRUE, mode |-> m, doc |-> d] :
             m \in ModesSeen(sec), d \in FileDocs(name)}

has_option(doc, section, option) ==
    \E t \in doc : t[1] = section /\ t[2] = option

get(doc, section, option) ==
    (CHOOSE t \in doc : t[1] = section /\ t[2] = option)[3]

\* a read that keeps the value an option already has
read_first_wins(doc, filedoc) ==
    doc \cup {t \in filedoc : ~has_option(doc, t[1], t[2])}

\* ConfigParser.read of a parseable file into existing options
read(doc, filedoc) ==
    {t \in doc : ~has_option(filedoc, t[1], t[2])} \cup filedoc

\* ---------------------------------------------------------------- the gate
NoVersion == <<>>

Returns(readable, ver, logs) ==
    [raises |-> "", readable |-> readable, version |-> ver, log |-> logs]

Raises(exc, ver) ==
    [raises |-> exc, readable |-> FALSE, version |-> ver, log |-> <<>>]

\* the version policy with a missing meta.version skipped instead of raised
check_version_skips_unversioned(ver, f) ==
    IF ver # NoVersion /\ ~has_option(f.doc, "meta", "version")
    THEN Returns(FALSE, ver, <<>>)
    ELSE IF ver = NoVersion /\ has_option(f.doc, "meta", "version")
    THEN LET text == get(f.doc, "meta", "version")
         IN  IF StrictVersionValid(text)
             THEN Returns(TRUE, StrictVersion(text), <<<<"info", "lock-in">>>>)
             ELSE Raises("ValueError", ver)
    ELSE IF ver # NoVersion
    THEN LET file_version == get(f.doc, "meta", "version")
         IN  IF ~StrictVersionValid(file_version)
             THEN Raises("ValueError", ver)
             ELSE IF ver[1] # StrictVersion(file_version)[1]
             THEN Returns(FALSE, ver,
                          <<<<"error", "Invalid major version number">>>>)
             ELSE Returns(TRUE, ver, <<>>)
    ELSE Returns(TRUE, ver, <<>>)

\* the version policy with a file without meta.version always accepted
check_version_accepts_unversioned(ver, f) ==
    IF ~has_option(f.doc, "meta", "version")
    THEN Returns(TRUE, ver, <<>>)
    ELSE check_version_skips_unversioned(ver, f)

\* the version policy without the lock-in of a discovered version
check_version_no_lock_in(ver, f) ==
    IF ver # NoVersion /\ ~has_option(f.doc, "meta", "version")
    THEN Raises("NoVersionError", ver)
    ELSE IF ver = NoVersion /\ has_option(f.doc, "meta", "version")
    THEN LET text == get(f.doc, "meta", "version")
         IN  IF StrictVersionValid(text)
             THEN Returns(TRUE, ver, <<>>)
             ELSE Raises("ValueError", ver)
    ELSE IF ver # NoVersion
    THEN LET file_version == get(f.doc, "meta", "version")
         IN  IF ~StrictVersionValid(file_version)
             THEN Raises("ValueError", ver)
             ELSE LET major == StrictVersion(file_version)[1]
                      minor == StrictVersion(file_version)[2]
                  IN  IF ver[1] # major
                      THEN Returns(FALSE, ver,
                                   <<<<"error", "Invalid major version number">>>>)
                      ELSE IF ver[2] # minor
                      THEN Returns(TRUE, ver,
                                   <<<<"warning",
                                       "Mismatching minor version number">>>>)
                      ELSE Returns(TRUE, ver, <<>>)
    ELSE Returns(TRUE, ver, <<>>)

\* the version policy with version 1.0 assumed for an unversioned file met
\* before any version is known
check_version_locks_on_unversioned(ver, f) ==
    IF ver # NoVersion /\ ~has_option(f.doc, "meta", "version")
    THEN Raises("NoVersionError", ver)
    ELSE IF ver = NoVersion /\ has_option(f.doc, "meta", "version")
    THEN LET text == get(f.doc, "meta", "version")
         IN  IF StrictVersionValid(text)
             THEN Returns(TRUE, StrictVersion(text), <<<<"info", "lock-in">>>>)
             ELSE Raises("ValueError", ver)
    ELSE IF ver # NoVersion
    THEN LET file_version == get(f.doc, "meta", "version")
         IN  IF ~StrictVersionValid(file_version)
             THEN Raises("ValueError", ver)
             ELSE LET major == StrictVersion(file_version)[1]
                      minor == StrictVersion(file_version)[2]
                  IN  IF ver[1] # major
                      THEN Returns(FALSE, ver,
                                   <<<<"error", "Invalid major version number">>>>)
                      ELSE IF ver[2] # minor
                      THEN Returns(TRUE, ver,
                                   <<<<"warning",
                                       "Mismatching minor version number">>>>)
                      ELSE Returns(TRUE, ver, <<>>)
    ELSE Returns(TRUE, <<1, 0, 0>>, <<>>)

\* the version policy with the version of the instance replaced by the
\* version of every file that passes
check_version_follows_files(ver, f) ==
    IF ver # NoVersion /\ ~has_option(f.doc, "meta", "version")
    THEN Raises("NoVersionError", ver)
    ELSE IF ver = NoVersion /\ has_option(f.doc, "meta", "version")
    THEN LET text == get(f.doc, "meta", "version")
         IN  IF StrictVersionValid(text)
             THEN Returns(TRUE, StrictVersion(text), <<<<"info", "lock-in">>>>)
             ELSE Raises("ValueError", ver)
    ELSE IF ver # NoVersion
    THEN LET file_version == get(f.doc, "meta", "version")
         IN  IF ~StrictVersionValid(file_version)
             THEN Raises("ValueError", ver)
             ELSE LET major == StrictVersion(file_version)[1]
                      minor == StrictVersion(file_version)[2]
                  IN  IF ver[1] # major
                      THEN Returns(FALSE, ver,
                                   <<<<"error", "Invalid major version number">>>>)
                      ELSE IF ver[2] # minor
                      THEN Returns(TRUE, StrictVersion(file_version),
                                   <<<<"warning",
                                       "Mismatching minor version number">>>>)
                      ELSE Returns(TRUE, ver, <<>>)
    ELSE Returns(TRUE, ver, <<>>)

\* the version policy with a major mismatch only logged
check_version_major_mismatch_loads(ver, f) ==
    IF ver # NoVersion /\ ~has_option(f.doc, "meta", "version")
    THEN Raises("NoVersionError", ver)
    ELSE IF ver = NoVersion /\ has_option(f.doc, "meta", "version")
    THEN LET text == get(f.doc, "meta", "version")
         IN  IF StrictVersionValid(text)
             THEN Returns(TRUE, StrictVersion(text), <<<<"info", "lock-in">>>>)
             ELSE Raises("ValueError", ver)
    ELSE IF ver # NoVersion
    THEN LET file_version == get(f.doc, "meta", "version")
         IN  IF ~StrictVersionValid(file_version)
             THEN Raises("ValueError", ver)
             ELSE LET major == StrictVersion(file_version)[1]
                      minor == StrictVersion(file_version)[2]
                  IN  IF ver[1] # major
                      THEN Returns(TRUE, ver,
                                   <<<<"error", "Invalid major version number">>>>)
                      ELSE IF ver[2] # minor
                      THEN Returns(TRUE, ver,
                                   <<<<"warning",
                                       "Mismatching minor version number">>>>)
                      ELSE Returns(TRUE, ver, <<>>)
    ELSE Returns(TRUE, ver, <<>>)

\* the version policy with a file of a lower minor number skipped
check_version_skips_lower_minor(ver, f) ==
    IF ver # NoVersion /\ ~has_option(f.doc, "meta", "version")
    THEN Raises("NoVersionError", ver)
    ELSE IF ver = NoVersion /\ has_option(f.doc, "meta", "version")
    THEN LET text == get(f.doc, "meta", "version")
         IN  IF StrictVersionValid(text)
             THEN Returns(TRUE, StrictVersion(text), <<<<"info", "lock-in">>>>)
             ELSE Raises("ValueError", ver)
    ELSE IF ver # NoVersion
    THEN LET file_version == get(f.doc, "meta", "version")
         IN  IF ~StrictVersionValid(file_version)
             THEN Raises("ValueError", ver)
             ELSE LET major == StrictVersion(file_version)[1]
                      minor == StrictVersion(file_version)[2]
                  IN  IF ver[1] # major
                      THEN Returns(FALSE, ver,
                                   <<<<"error", "Invalid major version number">>>>)
                      ELSE IF ver[2] > minor
                      THEN Returns(FALSE, ver,
                                   <<<<"warning",
                                       "Mismatching minor version number">>>>)
                      ELSE IF ver[2] # minor
                      THEN Returns(TRUE, ver,
                                   <<<<"warning",
                                       "Mismatching minor version number">>>>)
                      ELSE Returns(TRUE, ver, <<>>)
    ELSE Returns(TRUE, ver, <<>>)

\* the version policy with a file of a higher minor number skipped
check_version_skips_higher_minor(ver, f) ==
    IF ver # NoVersion /\ ~has_option(f.doc, "meta", "version")
    THEN Raises("NoVersionError", ver)
    ELSE IF ver = NoVersion /\ has_option(f.doc, "meta", "version")
    THEN LET text == get(f.doc, "meta", "version")
         IN  IF StrictVersionValid(text)
             THEN Returns(TRUE, StrictVersion(text), <<<<"info", "lock-in">>>>)
             ELSE Raises("ValueError", ver)
    ELSE IF ver # NoVersion
    THEN LET file_version == get(f.doc, "meta", "version")
         IN  IF ~StrictVersionValid(file_version)
             THEN Raises("ValueError", ver)
             ELSE LET major == StrictVersion(file_version)[1]
                      minor == StrictVersion(file_version)[2]
                  IN  IF ver[1] # major
                      THEN Returns(FALSE, ver,
                                   <<<<"error", "Invalid major version number">>>>)
                      ELSE IF ver[2] < minor
                      THEN Returns(FALSE, ver,
                                   <<<<"warning",
                                       "Mismatching minor version number">>>>)
                      ELSE IF ver[2] # minor
                      THEN Returns(TRUE, ver,
                                   <<<<"warning",
                                       "Mismatching minor version number">>>>)
                      ELSE Returns(TRUE, ver, <<>>)
    ELSE Returns(TRUE, ver, <<>>)

\* Config.check_file, the version policy applied to a parsed file
check_version(ver, f) ==
    IF ver # NoVersion /\ ~has_option(f.doc, "meta", "version")
    THEN Raises("NoVersionError", ver)
    ELSE IF ver = NoVersion /\ has_option(f.doc, "meta", "version")
    THEN LET text == get(f.doc, "meta", "version")
         IN  IF StrictVersionValid(text)
             THEN Returns(TRUE, StrictVersion(text), <<<<"info", "lock-in">>>>)
             ELSE Raises("ValueError", ver)
    ELSE IF ver # NoVersion
    THEN LET file_version == get(f.doc, "meta", "version")
         IN  IF ~StrictVersionValid(file_version)
             THEN Raises("ValueError", ver)
             ELSE LET major == StrictVersion(file_version)[1]
                      minor == StrictVersion(file_version)[2]
                  IN  IF ver[1] # major
                      THEN Returns(FALSE, ver,
                                   <<<<"error", "Invalid major version number">>>>)
                      ELSE IF ver[2] # minor
                      THEN Returns(TRUE, ver,
                                   <<<<"warning",
                                       "Mismatching minor version number">>>>)
                      ELSE Returns(TRUE, ver, <<>>)
    ELSE Returns(TRUE, ver, <<>>)

\* a gate that takes a missing file for a readable one
check_file_absent_readable(ver, f) ==
    IF ~f.exists THEN Returns(TRUE, ver, <<>>)
    ELSE IF ~f.parses THEN Raises("ParsingError", ver)
    ELSE check_version(ver, f)

\* Config.check_file for an instance whose version is ver
check_file(ver, f) ==
    IF ~f.exists THEN Returns(FALSE, ver, <<>>)
    ELSE IF ~f.parses THEN Raises("ParsingError", ver)
    ELSE check_version(ver, f)

BitSet(mode, bit) == (mode \div bit) % 2 = 1

\* a permission test that looks at the other-read bit only
secured_check_file_other_only(ver, f) ==
    LET can_read == check_file(ver, f)
    IN  IF can_read.raises # "" \/ ~can_read.readable THEN can_read
        ELSE IF BitSet(f.mode, S_IROTH)
        THEN Returns(FALSE, can_read.version,
                     can_read.log \o <<<<"warning", "not secure enough">>>>)
        ELSE can_read

\* SecuredConfig.check_file
secured_check_file(ver, f) ==
    LET can_read == check_file(ver, f)
    IN  IF can_read.raises # "" \/ ~can_read.readable THEN can_read
        ELSE IF BitSet(f.mode, S_IRGRP) \/ BitSet(f.mode, S_IROTH)
        THEN Returns(FALSE, can_read.version,
                     can_read.log \o <<<<"warning", "not secure enough">>>>)
        ELSE can_read

\* -------------------------------------------------------------- Config.load
gate(sec, ver, f) ==
    IF sec THEN secured_check_file(ver, f) ELSE check_file(ver, f)

config_filename == effective_filename(filename, environ)

\* load(), up to the for loop: the path and the active path are computed
LoadBegin ==
    /\ pc = "init"
    /\ LET p == effective_path(search_path, environ)
       IN  /\ path' = p
           /\ active_path' = [k \in 1..Len(p) |-> join(p[k], config_filename)]
    /\ idx' = 1
    /\ pc' = "scan"
    /\ UNCHANGED <<environ, fs, search_path, filename, require_load, secure,
                   version_arg, version, loaded_files, parser, error, log>>
    /\ UNCHANGED <<lookup_options, filters, load_calls, get_config_calls>>

\* a loop body that reads every existing file the gate did not raise on
LoadBody_reads_rejected(conf_name, f) ==
    LET r == gate(secure, version, f)
    IN  IF r.raises # ""
        THEN /\ pc' = "failed"
             /\ error' = r.raises
             /\ UNCHANGED <<version, idx, loaded_files, parser, log>>
        ELSE /\ version' = r.version
             /\ idx' = idx + 1
             /\ parser' = read(parser, f.doc)
             /\ IF r.readable
                THEN /\ loaded_files' = Append(loaded_files, conf_name)
                     /\ log' = log \o r.log \o
                               << <<"info",
                                    IF loaded_files # <<>> THEN "Updating"
                                    ELSE "Loading initial">> >>
                ELSE /\ log' = log \o r.log
                     /\ UNCHANGED loaded_files
             /\ UNCHANGED <<pc, error>>

\* a loop body that puts the newest loaded file first
LoadBody_prepends(conf_name, f) ==
    LET r == gate(secure, version, f)
    IN  IF r.raises # ""
        THEN /\ pc' = "failed"
             /\ error' = r.raises
             /\ UNCHANGED <<version, idx, loaded_files, parser, log>>
        ELSE /\ version' = r.version
             /\ idx' = idx + 1
             /\ IF r.readable
                THEN /\ loaded_files' = <<conf_name>> \o loaded_files
                     /\ parser' = read(parser, f.doc)
                     /\ log' = log \o r.log \o
                               << <<"info",
                                    IF loaded_files # <<>> THEN "Updating"
                                    ELSE "Loading initial">> >>
                ELSE /\ log' = log \o r.log
                     /\ UNCHANGED <<loaded_files, parser>>
             /\ UNCHANGED <<pc, error>>

\* the body of the for loop, run on the file f found under conf_name
LoadBody(conf_name, f) ==
    LET r == gate(secure, version, f)
    IN  IF r.raises # ""
        THEN /\ pc' = "failed"
             /\ error' = r.raises
             /\ UNCHANGED <<version, idx, loaded_files, parser, log>>
        ELSE /\ version' = r.version
             /\ idx' = idx + 1
             /\ IF r.readable
                THEN /\ parser' = read(parser, f.doc)
                     /\ loaded_files' = Append(loaded_files, conf_name)
                     /\ log' = log \o r.log \o
                               << <<"info",
                                    IF loaded_files # <<>> THEN "Updating"
                                    ELSE "Loading initial">> >>
                ELSE /\ log' = log \o r.log
                     /\ UNCHANGED <<parser, loaded_files>>
             /\ UNCHANGED <<pc, error>>

\* an iteration that drops a candidate found missing from the active path
LoadStep_records_found_only ==
    /\ pc = "scan"
    /\ idx <= Len(path)
    /\ LET conf_name == join(path[idx], config_filename)
       IN  /\ IF conf_name \in DOMAIN fs
              THEN /\ LoadBody(conf_name, fs[conf_name])
                   /\ UNCHANGED fs
              ELSE \E f \in FileKinds(conf_name, secure) :
                       /\ fs' = (conf_name :> f) @@ fs
                       /\ LoadBody(conf_name, f)
           /\ active_path' =
                  IF fs'[conf_name].exists THEN active_path
                  ELSE SelectSeq(active_path, LAMBDA n : n # conf_name)
    /\ UNCHANGED <<environ, search_path, filename, require_load, secure,
                   version_arg, path>>
    /\ UNCHANGED <<lookup_options, filters, load_calls, get_config_calls>>

\* one iteration of the for loop of load()
LoadStep ==
    /\ pc = "scan"
    /\ idx <= Len(path)
    /\ LET conf_name == join(path[idx], config_filename)
       IN  IF conf_name \in DOMAIN fs
           THEN /\ LoadBody(conf_name, fs[conf_name])
                /\ UNCHANGED fs
           ELSE \E f \in FileKinds(conf_name, secure) :
                    /\ fs' = (conf_name :> f) @@ fs
                    /\ LoadBody(conf_name, f)
    /\ UNCHANGED <<environ, search_path, filename, require_load, secure,
                   version_arg, path, active_path>>
    /\ UNCHANGED <<lookup_options, filters, load_calls, get_config_calls>>

\* an end of load() that raises whenever nothing was loaded
LoadEnd_ignores_require_load ==
    /\ pc = "scan"
    /\ idx > Len(path)
    /\ IF loaded_files = <<>>
       THEN /\ pc' = "failed"
            /\ error' = "IOError"
            /\ UNCHANGED log
       ELSE /\ pc' = "done"
            /\ UNCHANGED <<error, log>>
    /\ UNCHANGED <<environ, fs, search_path, filename, require_load, secure,
                   version_arg, version, path, idx, active_path, loaded_files,
                   parser>>
    /\ UNCHANGED <<lookup_options, filters, load_calls, get_config_calls>>

\* load(), after the for loop: the require_load policy
LoadEnd ==
    /\ pc = "scan"
    /\ idx > Len(path)
    /\ IF loaded_files = <<>> /\ ~require_load
       THEN /\ log' = Append(log, <<"warning", "No config file found">>)
            /\ pc' = "done"
            /\ UNCHANGED error
       ELSE IF loaded_files = <<>> /\ require_load
       THEN /\ pc' = "failed"
            /\ error' = "IOError"
            /\ UNCHANGED log
       ELSE /\ pc' = "done"
            /\ UNCHANGED <<error, log>>
    /\ UNCHANGED <<environ, fs, search_path, filename, require_load, secure,
                   version_arg, version, path, idx, active_path, loaded_files,
                   parser>>
    /\ UNCHANGED <<lookup_options, filters, load_calls, get_config_calls>>

\* ------------------------------------------------ the load specification
\* the instance was made by the constructor, without a mapping of options
NoOptions == <<>>

\* PrefixFilter('group=G:app=A', separator=':'), as its __eq__ sees it
prefix_filter ==
    [class |-> "PrefixFilter",
     prefix |-> <<"group=">> \o group_name \o <<":", "app=">> \o app_name,
     separator |-> <<":">>]

DirNames == <<"a", "b", "c">>

\* directory sequences up to renaming: a new directory is always the next one
Canonical(q) ==
    /\ q[1] = 1
    /\ \A k \in 2..Len(q) : \E j \in 1..(k - 1) : q[k] <= q[j] + 1

RECURSIVE JoinDirs(_)
JoinDirs(q) ==
    IF Len(q) = 1 THEN <<DirNames[q[1]]>>
    ELSE <<DirNames[q[1]], pathsep>> \o JoinDirs(Tail(q))

SearchPaths ==
    {JoinDirs(q) : q \in {r \in UNION {[1..n -> 1..Len(DirNames)] : n \in 1..MaxPath} :
                             Canonical(r)}}

RequestedVersions ==
    {NoVersion} \cup {<<1, 1, 0>>}

NoEnviron == [n \in EnvNames |-> <<>>]

Init ==
    /\ environ = NoEnviron
    /\ fs = <<>>
    /\ search_path \in SearchPaths
    /\ filename = <<"app.ini">>
    /\ require_load \in BOOLEAN
    /\ secure \in BOOLEAN
    /\ version_arg \in RequestedVersions
    /\ version = version_arg
    /\ pc = "init"
    /\ path = <<>>
    /\ idx = 0
    /\ active_path = <<>>
    /\ loaded_files = <<>>
    /\ parser = {}
    /\ error = ""
    /\ log = <<>>
    /\ lookup_options = NoOptions
    /\ filters = <<prefix_filter>>
    /\ load_calls = 1
    /\ get_config_calls = 0

Next == LoadBegin \/ LoadStep \/ LoadEnd

Spec == Init /\ [][Next]_vars

\* ------------------------------------------------ the path specification
\* the inputs of _effective_path drawn from bounded sets of strings
EnvPathValues == StrsUpTo({"+", pathsep, "a", "b"}, MaxEnvLen)

SearchPathValues == StrsUpTo({pathsep, "a", "b"}, MaxSearchLen)

InitPath ==
    /\ \E p \in EnvPathValues, d \in {<<>>, <<"p", ":", "q">>},
          h \in {<<>>, <<"h">>} :
           environ = [n \in EnvNames |->
                         CASE n = "PATH" -> p
                           [] n = "FILENAME" -> <<>>
                           [] n = "XDG_CONFIG_DIRS" -> d
                           [] n = "XDG_CONFIG_HOME" -> h]
    /\ fs = <<>>
    /\ search_path \in SearchPathValues
    /\ filename = <<"app.ini">>
    /\ require_load = FALSE
    /\ secure = FALSE
    /\ version_arg = NoVersion
    /\ version = version_arg
    /\ pc = "init"
    /\ path = <<>>
    /\ idx = 0
    /\ active_path = <<>>
    /\ loaded_files = <<>>
    /\ parser = {}
    /\ error = ""
    /\ log = <<>>
    /\ lookup_options = NoOptions
    /\ filters = <<prefix_filter>>
    /\ load_calls = 1
    /\ get_config_calls = 0

NextPath == LoadBegin

SpecPath == InitPath /\ [][NextPath]_vars

\* ---------------------------------------- the default-path specification
\* the default of the filename parameter of the constructor
DefaultFilename == <<"app.ini">>

XdgDirsValues == StrsUpTo({":", "p", "q"}, MaxXdgLen)

XdgHomeValues == {<<>>, <<"h">>, <<"~", "/", "h">>}

EnvFilenameValues == {<<>>, <<"e.ini">>, <<"/", "e.ini">>}

FilenameValues == {DefaultFilename, <<"f.ini">>, <<>>}

InitXdg ==
    /\ \E p \in {<<>>, <<"+", "b">>, <<"b">>}, e \in EnvFilenameValues,
          d \in XdgDirsValues, h \in XdgHomeValues :
           environ = [n \in EnvNames |->
                         CASE n = "PATH" -> p
                           [] n = "FILENAME" -> e
                           [] n = "XDG_CONFIG_DIRS" -> d
                           [] n = "XDG_CONFIG_HOME" -> h]
    /\ fs = <<>>
    /\ search_path \in {<<>>, <<"a">>}
    /\ filename \in FilenameValues
    /\ require_load = FALSE
    /\ secure = FALSE
    /\ version_arg = NoVersion
    /\ version = version_arg
    /\ pc = "init"
    /\ path = <<>>
    /\ idx = 0
    /\ active_path = <<>>
    /\ loaded_files = <<>>
    /\ parser = {}
    /\ error = ""
    /\ log = <<>>
    /\ lookup_options = NoOptions
    /\ filters = <<prefix_filter>>
    /\ load_calls = 1
    /\ get_config_calls = 0

NextXdg == LoadBegin

SpecXdg == InitXdg /\ [][NextXdg]_vars

\* ------------------------------------------- the permission specification
\* 0o600, 0o604, 0o640, 0o644
PermissionModes == {384, 388, 416, 420}

\* the versions a file of this specification can carry, <<>> for none
PermissionVersionTexts == {<<>>, VersionText(1, 1), VersionText(2, 0)}

\* the candidate names of the search path a:b:c
PermissionNames == {join(<<DirNames[i]>>, DefaultFilename) : i \in 1..Len(DirNames)}

\* the file under name n with mode m (0 for a missing file) and version text t
PermissionFile(n, m, t) ==
    IF m = 0 THEN AbsentFile
    ELSE [exists |-> TRUE, parses |-> TRUE, mode |-> m,
          doc |-> {<<"s", "x", n>>}
                  \cup (IF t = <<>> THEN {} ELSE {<<"meta", "version", t>>})]

\* every candidate file is fixed before the instance is made, so that one
\* file system is met by a Config and by a SecuredConfig
InitPermission ==
    /\ environ = NoEnviron
    /\ \E m \in [PermissionNames -> {0} \cup PermissionModes],
          t \in [PermissionNames -> PermissionVersionTexts] :
           fs = [n \in PermissionNames |-> PermissionFile(n, m[n], t[n])]
    /\ search_path = JoinDirs(<<1, 2, 3>>)
    /\ filename = DefaultFilename
    /\ require_load = FALSE
    /\ secure \in BOOLEAN
    /\ version_arg \in RequestedVersions
    /\ version = version_arg
    /\ pc = "init"
    /\ path = <<>>
    /\ idx = 0
    /\ active_path = <<>>
    /\ loaded_files = <<>>
    /\ parser = {}
    /\ error = ""
    /\ log = <<>>
    /\ lookup_options = NoOptions
    /\ filters = <<prefix_filter>>
    /\ load_calls = 1
    /\ get_config_calls = 0

NextPermission == LoadBegin \/ LoadStep \/ LoadEnd

SpecPermission == InitPermission /\ [][NextPermission]_vars

\* ---------------------------------------------- the handler specification
\* Handler.DEFAULT_FILENAME of the two handlers
IniDefaultFilename == <<"app.ini">>

JsonDefaultFilename == <<"app.json">>

HandlerSections == {"s", "t"}

HandlerKeys == {"x", "y"}

HandlerValues == {<<"1">>, <<"2">>}

\* the documents over these names: at most one value per section and key
HandlerDocs ==
    {d \in SUBSET (HandlerSections \X HandlerKeys \X HandlerValues) :
        \A t, u \in d : (t[1] = u[1] /\ t[2] = u[2]) => t = u}

\* IniHandler.update_from_file: ConfigParser.read_file sets every option of
\* the file and leaves the others
ini_update_from_file(config, new_data) ==
    {t \in config : ~has_option(new_data, t[1], t[2])} \cup new_data

\* JsonHandler.update_from_file: dict.update replaces every top-level entry
\* (section) of the file as a whole
json_update_from_file(config, new_data) ==
    {t \in config : \A u \in new_data : u[1] # t[1]} \cup new_data

HandlerFile == <<"f">>

IniUpdateFromFile ==
    /\ pc = "handler"
    /\ filename = IniDefaultFilename
    /\ parser' = ini_update_from_file(parser, fs[HandlerFile].doc)
    /\ loaded_files' = <<HandlerFile>>
    /\ UNCHANGED <<environ, fs, search_path, filename, require_load, secure,
                   version_arg, version, pc, path, idx, active_path, error, log>>
    /\ UNCHANGED <<lookup_options, filters, load_calls, get_config_calls>>

JsonUpdateFromFile ==
    /\ pc = "handler"
    /\ filename = JsonDefaultFilename
    /\ parser' = json_update_from_file(parser, fs[HandlerFile].doc)
    /\ loaded_files' = <<HandlerFile>>
    /\ UNCHANGED <<environ, fs, search_path, filename, require_load, secure,
                   version_arg, version, pc, path, idx, active_path, error, log>>
    /\ UNCHANGED <<lookup_options, filters, load_calls, get_config_calls>>

\* an accumulated document and a file, for either handler
InitHandler ==
    /\ environ = NoEnviron
    /\ \E d \in HandlerDocs :
           fs = (HandlerFile :>
                    [exists |-> TRUE, parses |-> TRUE, mode |-> 420, doc |-> d])
    /\ search_path = <<>>
    /\ filename \in {IniDefaultFilename, JsonDefaultFilename}
    /\ require_load = FALSE
    /\ secure = FALSE
    /\ version_arg = NoVersion
    /\ version = version_arg
    /\ pc = "handler"
    /\ path = <<>>
    /\ idx = 0
    /\ active_path = <<>>
    /\ loaded_files = <<>>
    /\ parser \in HandlerDocs
    /\ error = ""
    /\ log = <<>>
    /\ lookup_options = NoOptions
    /\ filters = <<prefix_filter>>
    /\ load_calls = 1
    /\ get_config_calls = 0

NextHandler == IniUpdateFromFile \/ JsonUpdateFromFile

SpecHandler == InitHandler /\ [][NextHandler]_vars

\* ------------------------------------------- the get_config specification
\* dict.get(key, default)
lookup(options, key, default) ==
    IF key \in DOMAIN options THEN options[key] ELSE default

\* the mapping left by dict.pop(key, default)
pop(options, key) ==
    [k \in DOMAIN options \ {key} |-> options[k]]

\* PrefixFilter.__eq__
PrefixFilterEq(f, g) ==
    /\ f.class = g.class
    /\ f.prefix = g.prefix
    /\ f.separator = g.separator

\* a registration that never looks at the filters already there
register_filter_always(flt, f) == Append(flt, f)

\* "if self._prefix_filter not in self._log.filters: addFilter(...)"
register_filter(flt, f) ==
    IF \E i \in 1..Len(flt) : PrefixFilterEq(flt[i], f) THEN flt
    ELSE Append(flt, f)

GetConfigDefaultFilename == <<"config.ini">>

\* a get_config in which the mapping's filename wins over the argument
get_config_filename_options_win(fname, options) ==
    IF Truthy(lookup(options, "filename", <<>>))
    THEN lookup(options, "filename", <<>>)
    ELSE IF Truthy(fname) THEN fname
    ELSE GetConfigDefaultFilename

\* filename or lookup_options.get('filename') or 'config.ini'
get_config_filename(fname, options) ==
    IF Truthy(fname) THEN fname
    ELSE IF Truthy(lookup(options, "filename", <<>>))
    THEN lookup(options, "filename", <<>>)
    ELSE GetConfigDefaultFilename

\* get_config up to the call of load() by the constructor: the options are
\* read from the mapping, 'secure' is popped from it, and a new instance is
\* made, whose constructor registers the prefix filter
GetConfig ==
    /\ pc = "call"
    /\ secure' = lookup(lookup_options, "secure", FALSE)
    /\ lookup_options' = pop(lookup_options, "secure")
    /\ search_path' = lookup(lookup_options, "search_path", <<>>)
    /\ filename' = get_config_filename(filename, lookup_options)
    /\ version_arg' =
           IF Truthy(lookup(lookup_options, "version", <<>>))
           THEN StrictVersion(lookup(lookup_options, "version", <<>>))
           ELSE NoVersion
    /\ version' = version_arg'
    /\ require_load' = lookup(lookup_options, "require_load", FALSE)
    /\ filters' = register_filter(filters, prefix_filter)
    /\ loaded_files' = <<>>
    /\ active_path' = <<>>
    /\ parser' = {}
    /\ path' = <<>>
    /\ idx' = 0
    /\ error' = ""
    /\ log' = <<>>
    /\ load_calls' = 1
    /\ get_config_calls' = get_config_calls + 1
    /\ pc' = "init"
    /\ UNCHANGED <<environ, fs>>

FilenameArguments == {<<>>, <<"d.ini">>}

\* the caller calls get_config once more, with the mapping of the call
\* before
CallAgain ==
    /\ pc \in {"done", "failed"}
    /\ get_config_calls < MaxCalls
    /\ pc' = "call"
    /\ filename' \in FilenameArguments
    /\ UNCHANGED <<environ, fs, search_path, require_load, secure, version_arg,
                   version, path, idx, active_path, loaded_files, parser,
                   error, log, lookup_options, filters, load_calls,
                   get_config_calls>>

\* the mappings a caller passes: each key absent or with one of its values
OptionMaps ==
    {   (IF sec = "absent" THEN <<>> ELSE "secure" :> (sec = "true"))
     @@ (IF fname = "absent" THEN <<>>
         ELSE "filename" :> (IF fname = "empty" THEN <<>> ELSE <<"o.ini">>))
     @@ (IF sp THEN "search_path" :> JoinDirs(<<1, 2>>) ELSE <<>>)
     @@ (IF ver THEN "version" :> VersionText(1, 1) ELSE <<>>)
     @@ (IF rl THEN "require_load" :> TRUE ELSE <<>>) :
        sec \in {"absent", "true", "false"},
        fname \in {"absent", "empty", "given"},
        sp \in BOOLEAN, ver \in BOOLEAN, rl \in BOOLEAN}

GetConfigFilenames ==
    (FilenameArguments \ {<<>>}) \cup {<<"o.ini">>, GetConfigDefaultFilename}

\* the names under directory d
NamesIn(d) == {join(d, f) : f \in GetConfigFilenames}

\* every name a call of this specification can examine
GetConfigNames ==
    UNION {NamesIn(d) :
              d \in {p[k] : k \in 1..5,
                            p \in {default_path(NoEnviron)}}
                    \cup {<<"a">>, <<"b">>}}

\* the files are fixed before the first call: those of directory a have mode
\* m and version text t, those of directory b are private and unversioned,
\* no other file exists
InitGetConfig ==
    /\ environ = NoEnviron
    /\ \E m \in Modes, t \in PermissionVersionTexts :
           fs = [n \in GetConfigNames |->
                    IF n \in NamesIn(<<"a">>) THEN PermissionFile(n, m, t)
                    ELSE IF n \in NamesIn(<<"b">>)
                    THEN PermissionFile(n, 384, <<>>)
                    ELSE AbsentFile]
    /\ lookup_options \in OptionMaps
    /\ filename \in FilenameArguments
    /\ search_path = <<>>
    /\ require_load = FALSE
    /\ secure = FALSE
    /\ version_arg = NoVersion
    /\ version = NoVersion
    /\ pc = "call"
    /\ path = <<>>
    /\ idx = 0
    /\ active_path = <<>>
    /\ loaded_files = <<>>
    /\ parser = {}
    /\ error = ""
    /\ log = <<>>
    /\ filters = <<>>
    /\ load_calls = 0
    /\ get_config_calls = 0

NextGetConfig == GetConfig \/ LoadBegin \/ LoadStep \/ LoadEnd \/ CallAgain

SpecGetConfig == InitGetConfig /\ [][NextGetConfig]_vars

\* ----------------------------------------------- the reload specification
\* the candidate names of the search path a:b
ReloadNames == {join(<<DirNames[i]>>, DefaultFilename) : i \in 1..2}

\* what the file under name n can be when a scan starts: missing, empty,
\* or holding s.x with or without a version
ReloadKinds(n) ==
    {AbsentFile, [exists |-> TRUE, parses |-> TRUE, mode |-> 384, doc |-> {}]}
    \cup {PermissionFile(n, 384, t) : t \in PermissionVersionTexts}

ReloadFileSystems ==
    {f \in [ReloadNames -> UNION {ReloadKinds(n) : n \in ReloadNames}] :
        \A n \in ReloadNames : f[n] \in ReloadKinds(n)}

\* load(reload=True, require_load=...) on an instance whose load() has
\* returned, the files having been rewritten in between: self.config, which
\* is None throughout, is set to None, and the scan starts again on the
\* instance as it is
Reload ==
    /\ pc = "done"
    /\ load_calls < MaxLoads
    /\ fs' \in ReloadFileSystems
    /\ require_load' \in BOOLEAN
    /\ load_calls' = load_calls + 1
    /\ pc' = "init"
    /\ UNCHANGED <<environ, search_path, filename, secure, version_arg,
                   version, path, idx, active_path, loaded_files, parser,
                   error, log, lookup_options, filters, get_config_calls>>

InitReload ==
    /\ environ = NoEnviron
    /\ fs \in ReloadFileSystems
    /\ search_path = JoinDirs(<<1, 2>>)
    /\ filename = DefaultFilename
    /\ require_load \in BOOLEAN
    /\ secure = FALSE
    /\ version_arg \in RequestedVersions
    /\ version = version_arg
    /\ pc = "init"
    /\ path = <<>>
    /\ idx = 0
    /\ active_path = <<>>
    /\ loaded_files = <<>>
    /\ parser = {}
    /\ error = ""
    /\ log = <<>>
    /\ lookup_options = NoOptions
    /\ filters = <<prefix_filter>>
    /\ load_calls = 1
    /\ get_config_calls = 0

NextReload == LoadBegin \/ LoadStep \/ LoadEnd \/ Reload

SpecReload == InitReload /\ [][NextReload]_vars

\* ------------------------------------------------------------ the claims
Max(S) == CHOOSE m \in S : \A n \in S : n <= m

OptionKeys == {<<"s", "x">>, <<"meta", "version">>}

\* the positions of loaded_files whose file defines option k
Definers(k) ==
    {j \in 1..Len(loaded_files) :
        has_option(fs[loaded_files[j]].doc, k[1], k[2])}

\* candidate k of the active path has been through the gate
Examined(k) ==
    /\ pc \in {"scan", "done", "failed"}
    /\ idx > k \/ (pc = "failed" /\ idx = k)

HasVersion(f) == f.exists /\ f.parses /\ has_option(f.doc, "meta", "version")

NoVersionFile(f) ==
    f.exists /\ f.parses /\ ~has_option(f.doc, "meta", "version")

KnownExisting(n) == n \in DOMAIN fs /\ fs[n].exists

\* C1: when a resolution completes without error, every option of the
\* result has the value given by the last file of loaded_files that defines
\* it, and an option no loaded file defines is not in the result.
C1_LastLoadedFileWins ==
    pc = "done" =>
        \A k \in OptionKeys :
            IF Definers(k) = {}
            THEN ~has_option(parser, k[1], k[2])
            ELSE /\ has_option(parser, k[1], k[2])
                 /\ get(parser, k[1], k[2]) =
                        get(fs[loaded_files[Max(Definers(k))]].doc, k[1], k[2])

\* three files are loaded, the first two define s.x with different values
\* and the last one does not define it
C1_Witness ==
    /\ pc = "done"
    /\ Len(loaded_files) = 3
    /\ Definers(<<"s", "x">>) = {1, 2}
    /\ loaded_files[1] # loaded_files[2]
    /\ get(parser, "s", "x") = loaded_files[2]

\* the existing files of the path are a file with meta.version 1.2 followed
\* by a file without meta.version, and no version was requested
C2_Case(E) ==
    /\ version_arg = NoVersion
    /\ Len(E) = 2
    /\ HasVersion(fs[E[1]])
    /\ get(fs[E[1]].doc, "meta", "version") = VersionText(1, 2)
    /\ NoVersionFile(fs[E[2]])

\* C2 (as claimed): with no version requested, when the existing files of
\* the path are a file with meta.version 1.2 followed by a file without
\* meta.version, the resolution ends without error and both are loaded.
C2_VersionedThenUnversionedLoadsBoth ==
    LET E == SelectSeq(active_path, KnownExisting)
    IN  (pc \in {"done", "failed"} /\ ~secure /\ C2_Case(E)) =>
            (pc = "done" /\ error = "" /\ loaded_files = E)

\* C2 (amended): in that case version 1.2 is locked in at the first file and
\* the resolution fails with NoVersionError at the second file, which is
\* not loaded; the first file is loaded unless the security gate rejects it.
C2_VersionedThenUnversionedRaises ==
    LET E == SelectSeq(active_path, KnownExisting)
    IN  C2_Case(E) =>
            /\ pc = "failed"
            /\ error = "NoVersionError"
            /\ version = <<1, 2, 0>>
            /\ active_path[idx] = E[2]
            /\ \A j \in 1..Len(loaded_files) : loaded_files[j] # E[2]
            /\ loaded_files =
                   IF secure /\ ( \/ BitSet(fs[E[1]].mode, S_IRGRP)
                                  \/ BitSet(fs[E[1]].mode, S_IROTH) )
                   THEN <<>> ELSE <<E[1]>>

C2_Witness ==
    LET E == SelectSeq(active_path, KnownExisting)
    IN  /\ C2_Case(E)
        /\ ~secure
        /\ error = "NoVersionError"
        /\ loaded_files = <<E[1]>>
        /\ Len(path) = 3
        /\ idx = 2

\* C3 (as claimed): a file that exists but cannot be parsed never makes the
\* gate raise; it is skipped.
C3_CorruptFileIsSkipped ==
    \A n \in DOMAIN fs :
        (fs[n].exists /\ ~fs[n].parses) =>
            /\ error # "ParsingError"
            /\ \A j \in 1..Len(loaded_files) : loaded_files[j] # n

\* C4 (as claimed): a resolution fails only with NoVersionError or with the
\* IOError of require_load.
C4_OnlyTwoFailures ==
    pc = "failed" => error \in {"NoVersionError", "IOError"}

\* C5: if a version was requested and an examined candidate exists, parses
\* and has no meta.version, the resolution has failed with NoVersionError at
\* that candidate: the loop stands there, and everything loaded or merged
\* comes from candidates before it.
C5_MissingRequiredVersionAborts ==
    version_arg # NoVersion =>
        \A k \in 1..Len(active_path) :
            (Examined(k) /\ NoVersionFile(fs[active_path[k]])) =>
                /\ pc = "failed"
                /\ error = "NoVersionError"
                /\ idx = k
                /\ Len(loaded_files) < k
                /\ \A j \in 1..Len(loaded_files) :
                       \E m \in 1..(k - 1) : loaded_files[j] = active_path[m]
                /\ \A t \in parser :
                       t[1] = "s" => \E m \in 1..(k - 1) : t[3] = active_path[m]

\* NoVersionError at the second candidate, after a file was loaded and with
\* a candidate left
C5_Witness ==
    /\ pc = "failed"
    /\ error = "NoVersionError"
    /\ version_arg # NoVersion
    /\ idx = 2
    /\ Len(path) = 3
    /\ Len(loaded_files) = 1
    /\ NoVersionFile(fs[active_path[2]])

\* C6: IOError is raised only with require_load and nothing loaded, and once
\* the loop has run to its end it is raised exactly then.
C6_ConfigNotFoundIffRequiredAndEmpty ==
    /\ error = "IOError" => (require_load /\ loaded_files = <<>>)
    /\ (pc \in {"done", "failed"} /\ idx > Len(path)) =>
           (error = "IOError" <=> (require_load /\ loaded_files = <<>>))

\* IOError although a candidate exists: the gate skipped it
C6_Witness ==
    /\ error = "IOError"
    /\ \E n \in DOMAIN fs : fs[n].exists
    /\ \E n \in DOMAIN fs : ~fs[n].exists

\* C7: while no examined candidate exists and require_load is false, the
\* resolution has not failed, nothing is loaded, the document is empty and
\* the active path has one entry per candidate directory.
C7_NothingFoundReturnsEmpty ==
    (~require_load /\ \A n \in DOMAIN fs : ~fs[n].exists) =>
        /\ pc # "failed"
        /\ error = ""
        /\ loaded_files = <<>>
        /\ parser = {}
        /\ pc # "init" =>
               /\ Len(active_path) = Len(path)
               /\ \A k \in 1..Len(path) :
                      active_path[k] = join(path[k], config_filename)

C7_Witness ==
    /\ pc = "done"
    /\ ~require_load
    /\ Len(path) = 3
    /\ Cardinality(DOMAIN fs) = 3
    /\ \A n \in DOMAIN fs : ~fs[n].exists
    /\ Len(active_path) = 3

RECURSIVE JoinSep(_)
JoinSep(q) ==
    IF Len(q) = 0 THEN <<>>
    ELSE IF Len(q) = 1 THEN q[1]
    ELSE q[1] \o <<pathsep>> \o JoinSep(Tail(q))

SepFree(q) == \A k \in 1..Len(q) : \A m \in 1..Len(q[k]) : q[k][m] # pathsep

\* the path before the environment variable is considered
PriorPath ==
    IF Truthy(search_path) THEN split(search_path, pathsep)
    ELSE default_path(environ)

\* C8: with <GROUP>_<APP>_PATH set to "+" and entries, the effective path
\* is the prior path (default path or explicit search_path) followed by
\* those entries in their order.
C8_PlusAppends ==
    (pc = "scan" /\ startswith(environ["PATH"], "+")) =>
        LET n == Len(PriorPath)
            added == SubSeq(path, n + 1, Len(path))
        IN  /\ Len(path) > n
            /\ SubSeq(path, 1, n) = PriorPath
            /\ SepFree(added)
            /\ JoinSep(added) = Tail(environ["PATH"])

C8_Witness ==
    /\ pc = "scan"
    /\ environ["PATH"] = <<"+", "a", pathsep, "b">>
    /\ ~Truthy(search_path)
    /\ Truthy(environ["XDG_CONFIG_DIRS"])
    /\ Len(path) = 8
    /\ path[7] = <<"a">>
    /\ path[8] = <<"b">>

\* C9: with <GROUP>_<APP>_PATH non-empty and not starting with "+", the
\* effective path is exactly the entries of that value, whatever the default
\* path and search_path are.
C9_EnvReplaces ==
    (pc = "scan" /\ Truthy(environ["PATH"])
        /\ ~startswith(environ["PATH"], "+")) =>
        /\ SepFree(path)
        /\ JoinSep(path) = environ["PATH"]

C9_Witness ==
    /\ pc = "scan"
    /\ environ["PATH"] = <<"a", pathsep, "b">>
    /\ search_path = <<"b", pathsep, "a">>
    /\ path = << <<"a">>, <<"b">> >>

\* C10: with a non-empty search_path and <GROUP>_<APP>_PATH unset or empty,
\* the effective path is exactly the entries of search_path and holds no
\* directory of the default path.
C10_SearchPathReplacesDefault ==
    (pc = "scan" /\ Truthy(search_path) /\ ~Truthy(environ["PATH"])) =>
        /\ SepFree(path)
        /\ JoinSep(path) = search_path
        /\ \A k \in 1..Len(path) :
               \A d \in 1..Len(default_path(environ)) :
                   path[k] # default_path(environ)[d]

C10_Witness ==
    /\ pc = "scan"
    /\ search_path = <<"a", pathsep, "b">>
    /\ ~Truthy(environ["PATH"])
    /\ path = << <<"a">>, <<"b">> >>

\* the default path is in use: no search_path, no replacing environment path
DefaultPathInUse ==
    /\ pc = "scan"
    /\ ~Truthy(search_path)
    /\ ~Truthy(environ["PATH"]) \/ startswith(environ["PATH"], "+")

\* the entries of XDG_CONFIG_DIRS in the order of the variable
XdgEntries == split(environ["XDG_CONFIG_DIRS"], ":")

EtcDir == <<"/", "etc", "/", "G", "/", "A">>

EtcXdgDir == <<"/", "etc", "/", "xdg", "/", "G", "/", "A">>

CwdDir == <<"/", "cwd", "/", ".", "G", "/", "A">>

XdgHomeDir ==
    IF Truthy(environ["XDG_CONFIG_HOME"])
    THEN expanduser(environ["XDG_CONFIG_HOME"] \o <<"/", "G", "/", "A">>)
    ELSE <<"/", "home", "/", ".config", "/", "G", "/", "A">>

\* the number of directories XDG_CONFIG_DIRS contributes
XdgCount ==
    IF Truthy(environ["XDG_CONFIG_DIRS"]) THEN Len(XdgEntries) ELSE 1

\* C11 (as claimed): with no search_path and no <GROUP>_<APP>_PATH, the
\* effective path is exactly /etc/<group>/<app>, the XDG_CONFIG_DIRS
\* directories, the XDG home directory and <cwd>/.<group>/<app>, in this
\* order and with no other entry.
C11_DefaultPathHasFourKinds ==
    (pc = "scan" /\ ~Truthy(search_path) /\ ~Truthy(environ["PATH"])) =>
        /\ Len(path) = XdgCount + 3
        /\ path[1] = EtcDir
        /\ path[XdgCount + 2] = XdgHomeDir
        /\ path[XdgCount + 3] = CwdDir

\* C12: while the default path is in use, the directories of
\* XDG_CONFIG_DIRS follow /etc/<group>/<app> in the reverse of their order
\* in the variable (its first entry comes last among them), and an unset or
\* empty XDG_CONFIG_DIRS gives the single entry /etc/xdg/<group>/<app>.
C12_XdgDirsReversed ==
    DefaultPathInUse =>
        /\ Len(path) >= XdgCount + 1
        /\ IF Truthy(environ["XDG_CONFIG_DIRS"])
           THEN \A k \in 1..XdgCount :
                    path[1 + k] =
                        join(XdgEntries[XdgCount + 1 - k], <<"G", "/", "A">>)
           ELSE path[2] = EtcXdgDir

C12_Witness ==
    /\ DefaultPathInUse
    /\ environ["XDG_CONFIG_DIRS"] = <<"p", ":", "q">>
    /\ path[2] = <<"q", "/", "G", "/", "A">>
    /\ path[3] = <<"p", "/", "G", "/", "A">>
    /\ active_path[3] = <<"p", "/", "G", "/", "A", "/", "app.ini">>

\* s ends with t
EndsWith(s, t) ==
    /\ Len(s) >= Len(t)
    /\ SubSeq(s, Len(s) - Len(t) + 1, Len(s)) = t

\* C13: every entry of active_path ends with one filename: the value of
\* <GROUP>_<APP>_FILENAME when it is set and non-empty, whatever filename
\* the caller passed, and otherwise the filename of the constructor call
\* (the default app.ini when the argument was left out).
C13_EnvFilenameOverrides ==
    pc = "scan" =>
        LET expected == IF environ["FILENAME"] # <<>>
                        THEN environ["FILENAME"] ELSE filename
        IN  /\ Len(active_path) = Len(path)
            /\ \A k \in 1..Len(active_path) :
                   /\ EndsWith(active_path[k], expected)
                   /\ active_path[k] \in
                          {expected, path[k] \o expected,
                           path[k] \o <<"/">> \o expected}

C13_Witness ==
    /\ pc = "scan"
    /\ environ["FILENAME"] = <<"e.ini">>
    /\ filename = <<"f.ini">>
    /\ Len(active_path) = 5
    /\ active_path[1] = EtcDir \o <<"/", "e.ini">>

\* C14: from the moment the loop starts, active_path has one entry per
\* entry of the effective path, in the same order, each the join of the
\* directory with the effective filename, whatever happens to the file; the
\* load loop never changes it.
C14_ActivePathFrozen ==
    /\ [](pc # "init" =>
             /\ Len(active_path) = Len(path)
             /\ JoinSep(path) = search_path
             /\ \A k \in 1..Len(path) :
                    active_path[k] = path[k] \o <<"/">> \o config_filename)
    /\ [][pc # "init" => active_path' = active_path]_vars

\* a finished load over three candidates: one missing, one rejected by the
\* version check, one loaded
C14_Witness ==
    /\ pc = "done"
    /\ Len(active_path) = 3
    /\ Cardinality(DOMAIN fs) = 3
    /\ Len(loaded_files) = 1
    /\ \E n \in DOMAIN fs : ~fs[n].exists
    /\ \E n \in DOMAIN fs : fs[n].exists /\ n # loaded_files[1]

\* the file under name n is known, parses and carries a well-formed version
ValidVersioned(n) ==
    /\ n \in DOMAIN fs
    /\ HasVersion(fs[n])
    /\ StrictVersionValid(get(fs[n].doc, "meta", "version"))

FileVersion(n) == StrictVersion(get(fs[n].doc, "meta", "version"))

\* the version the file of candidate k carries, NoVersion if it is missing,
\* unparseable, without meta.version or with a malformed one
CandidateVersion(k) ==
    LET f == fs[active_path[k]]
    IN  IF f.exists /\ f.parses /\ has_option(f.doc, "meta", "version")
        THEN LET text == get(f.doc, "meta", "version")
             IN  IF StrictVersionValid(text) THEN StrictVersion(text)
                 ELSE NoVersion
        ELSE NoVersion

Loaded(n) == \E j \in 1..Len(loaded_files) : loaded_files[j] = n

\* the instance holds a value that comes from the file under name n
Merged(n) == \E t \in parser : t[1] = "s" /\ t[3] = n

\* candidate k went through the gate and the gate did not raise
PassedGate(k) == Examined(k) /\ ~(pc = "failed" /\ idx = k)

LogCount(e) == Cardinality({i \in 1..Len(log) : log[i] = e})

MajorError == <<"error", "Invalid major version number">>

MinorWarning == <<"warning", "Mismatching minor version number">>

\* the file of candidate k fails the permission test of a SecuredConfig
Insecure(k) ==
    \/ BitSet(fs[active_path[k]].mode, S_IRGRP)
    \/ BitSet(fs[active_path[k]].mode, S_IROTH)

\* the first examined candidate whose file carries meta.version, 0 if none
FirstVersioned ==
    LET versioned == {j \in 1..Len(active_path) :
                         Examined(j) /\ HasVersion(fs[active_path[j]])}
    IN  IF versioned = {} THEN 0
        ELSE CHOOSE j \in versioned : \A i \in versioned : j <= i

\* C15: with no version requested, the version of the first candidate that
\* carries one is the version of the instance from then on, and a later
\* examined candidate whose major number differs from it is skipped: the
\* gate does not raise, the file is neither merged nor in loaded_files, and
\* an error-level "Invalid major version number" record is logged.
C15_LockInSkipsOtherMajor ==
    LET j == FirstVersioned
    IN  (version_arg = NoVersion /\ j # 0) =>
            LET locked == CandidateVersion(j)
            IN  locked # NoVersion =>
                    /\ version = locked
                    /\ \A k \in (j + 1)..Len(active_path) :
                           ( /\ Examined(k)
                             /\ LET v == CandidateVersion(k)
                                IN  v # NoVersion /\ v[1] # locked[1] )
                           => /\ PassedGate(k)
                              /\ ~Loaded(active_path[k])
                              /\ ~Merged(active_path[k])
                              /\ LogCount(MajorError) >= 1

\* version 1.x locked in by the first file, the second file of major 2
\* skipped, the third file loaded
C15_Witness ==
    /\ pc = "done"
    /\ version_arg = NoVersion
    /\ Len(active_path) = 3
    /\ loaded_files = <<active_path[1], active_path[3]>>
    /\ ValidVersioned(active_path[2])
    /\ FileVersion(active_path[2])[1] = 2
    /\ version[1] = 1
    /\ LogCount(MajorError) = 1

\* the examined candidates whose major number differs from the version of
\* the instance
MajorMismatches ==
    IF version = NoVersion THEN {}
    ELSE {k \in 1..Len(active_path) :
             /\ Examined(k)
             /\ LET v == CandidateVersion(k)
                IN  v # NoVersion /\ v[1] # version[1]}

LowerMinors ==
    IF version = NoVersion THEN {}
    ELSE {k \in 1..Len(active_path) :
             /\ Examined(k)
             /\ LET v == CandidateVersion(k)
                IN  v # NoVersion /\ v[1] = version[1] /\ v[2] < version[2]}

SameOrHigherMinors ==
    IF version = NoVersion THEN {}
    ELSE {k \in 1..Len(active_path) :
             /\ Examined(k)
             /\ LET v == CandidateVersion(k)
                IN  v # NoVersion /\ v[1] = version[1] /\ v[2] >= version[2]}

\* C18: a candidate of the current major number whose minor number is the
\* expected one or greater is accepted: the gate does not raise and the file
\* is in loaded_files (unless the permission test of a SecuredConfig rejects
\* it), the last such file giving the values of the instance; a greater
\* minor number only adds a warning record.
C18_SameOrHigherMinorIsLoaded ==
    LET accepted == SameOrHigherMinors
    IN  /\ \A k \in accepted :
               /\ PassedGate(k)
               /\ Loaded(active_path[k]) <=> ~(secure /\ Insecure(k))
               /\ (Loaded(active_path[k])
                      /\ loaded_files[Len(loaded_files)] = active_path[k])
                      => get(parser, "s", "x") = active_path[k]
        /\ (\E k \in accepted : CandidateVersion(k)[2] > version[2])
               => LogCount(MinorWarning) >= 1

\* version 1.1 requested, a file of version 1.1 and then a file of version
\* 1.2 loaded
C18_Witness ==
    /\ pc = "done"
    /\ version_arg = <<1, 1, 0>>
    /\ SameOrHigherMinors = {1, 2}
    /\ FileVersion(active_path[1]) = <<1, 1, 0>>
    /\ FileVersion(active_path[2]) = <<1, 2, 0>>
    /\ loaded_files = <<active_path[1], active_path[2]>>
    /\ get(parser, "s", "x") = active_path[2]
    /\ LogCount(MinorWarning) = 1

\* candidate k exists and passed the version check of Config.check_file
PassedVersionCheck(k) ==
    /\ PassedGate(k)
    /\ fs[active_path[k]].exists
    /\ fs[active_path[k]].parses
    /\ \/ ~has_option(fs[active_path[k]].doc, "meta", "version")
       \/ /\ ValidVersioned(active_path[k])
          /\ FileVersion(active_path[k])[1] = version[1]

NotSecureWarning == <<"warning", "not secure enough">>

\* the candidates a SecuredConfig rejects for their permission bits
Rejected ==
    {k \in 1..Len(active_path) :
        PassedVersionCheck(k) /\ secure /\ Insecure(k)}

\* C19: a candidate that exists and passes the version check is in
\* loaded_files exactly when the instance is not secured or the file has
\* neither the group-read nor the other-read bit; a rejected file is not
\* merged and each rejection gives one warning record.
C19_SecureRejectsReadableByOthers ==
    /\ \A k \in 1..Len(active_path) :
           PassedVersionCheck(k) =>
               /\ Loaded(active_path[k]) <=>
                      (~secure \/ fs[active_path[k]].mode = 384)
               /\ k \in Rejected => ~Merged(active_path[k])
    /\ LogCount(NotSecureWarning) = Cardinality(Rejected)

\* a SecuredConfig over files of mode 640, 604 and 600: only the last one
\* is loaded
C19_Witness ==
    /\ pc = "done"
    /\ secure
    /\ Len(active_path) = 3
    /\ fs[active_path[1]].mode = 416
    /\ fs[active_path[2]].mode = 388
    /\ fs[active_path[3]].mode = 384
    /\ Rejected = {1, 2}
    /\ loaded_files = <<active_path[3]>>
    /\ parser = {<<"s", "x", active_path[3]>>}

\* C20 (as claimed): a call of update_from_file, of either handler, keeps
\* every (section, key) pair of the accumulated document that the file does
\* not define, with its value, and gives the pairs the file defines the
\* values of the file.
C20_UpdateNeverRemoves ==
    [][(IniUpdateFromFile \/ JsonUpdateFromFile) =>
          /\ \A t \in parser :
                 ~has_option(fs[HandlerFile].doc, t[1], t[2]) => t \in parser'
          /\ \A t \in fs[HandlerFile].doc : t \in parser']_vars

\* the gate returned false for candidate k: the file is missing, of another
\* major number, or not secure enough
GateRejected(k) ==
    /\ PassedGate(k)
    /\ \/ ~fs[active_path[k]].exists
       \/ k \in MajorMismatches
       \/ k \in Rejected

\* C21: every option of the result is an option of a file in loaded_files;
\* a candidate the gate rejected is not in loaded_files and gives the result
\* no value; every option of every file in loaded_files is in the result,
\* the last loaded file with its own values.
C21_ResultOnlyFromLoadedFiles ==
    /\ \A t \in parser :
           \E j \in 1..Len(loaded_files) : t \in fs[loaded_files[j]].doc
    /\ \A k \in 1..Len(active_path) :
           GateRejected(k) =>
               /\ ~Loaded(active_path[k])
               /\ ~Merged(active_path[k])
    /\ \A j \in 1..Len(loaded_files) :
           /\ \A t \in fs[loaded_files[j]].doc : has_option(parser, t[1], t[2])
           /\ j = Len(loaded_files) => fs[loaded_files[j]].doc \subseteq parser

\* a secured instance of version 1.1 over a missing file, a file of major 2,
\* an insecure file and a loaded file
C21_Witness ==
    /\ pc = "done"
    /\ secure
    /\ version_arg = <<1, 1, 0>>
    /\ \E k \in 1..3 : GateRejected(k) /\ k \in MajorMismatches
    /\ \E k \in 1..3 : GateRejected(k) /\ k \in Rejected
    /\ Len(loaded_files) = 1
    /\ Cardinality(parser) = 2

\* C22: with no version requested, the instance has no version until the
\* first candidate, in path order, whose file carries one, and takes that
\* version there, wherever the candidate stands in the path; every parseable
\* file before it is in loaded_files and its options are in the result (a
\* secured instance still rejects the insecure ones), and no version record is logged for the
\* candidates before it.
C22_LockInAtFirstVersionedFile ==
    LET j == FirstVersioned
        before == {k \in 1..Len(active_path) :
                      Examined(k) /\ (j = 0 \/ k < j)}
    IN  version_arg = NoVersion =>
            /\ j = 0 =>
                   /\ version = NoVersion
                   /\ LogCount(MajorError) = 0
                   /\ LogCount(MinorWarning) = 0
            /\ (j # 0 /\ CandidateVersion(j) # NoVersion) =>
                   version = CandidateVersion(j)
            /\ \A k \in before :
                   ( /\ fs[active_path[k]].exists
                     /\ fs[active_path[k]].parses
                     /\ ~(secure /\ Insecure(k)) )
                   => /\ Loaded(active_path[k])
                      /\ \A t \in fs[active_path[k]].doc :
                             has_option(parser, t[1], t[2])

\* two unversioned files loaded, then the third file gives its version
C22_Witness ==
    /\ pc = "done"
    /\ version_arg = NoVersion
    /\ FirstVersioned = 3
    /\ version = CandidateVersion(3)
    /\ version # NoVersion
    /\ Len(loaded_files) = 3

\* C25: during one resolution the version of the instance changes only in a
\* step of the scan that examines a file carrying a version, only when the
\* instance has no version and none was requested, and only to the version
\* of that file; a version that is set stays as it is.
C25_VersionSetAtMostOnce ==
    [][ version' # version =>
            /\ pc = "scan"
            /\ version = NoVersion
            /\ version_arg = NoVersion
            /\ LET f == fs'[active_path[idx]]
               IN  /\ HasVersion(f)
                   /\ StrictVersionValid(get(f.doc, "meta", "version"))
                   /\ version' = StrictVersion(get(f.doc, "meta", "version"))
      ]_vars

\* the scan went on over two more versioned files after the lock-in
C25_Witness ==
    /\ pc = "done"
    /\ version_arg = NoVersion
    /\ Len(active_path) = 3
    /\ version = CandidateVersion(1)
    /\ version # NoVersion
    /\ CandidateVersion(2) # NoVersion
    /\ CandidateVersion(2) # version
    /\ CandidateVersion(3) # NoVersion
    /\ CandidateVersion(3) # version

\* C26 as stated: loaded_files is a subsequence of active_path in which no
\* entry appears twice.
C26_LoadedFilesNoDuplicates ==
    /\ \A j \in 1..Len(loaded_files) :
           \E k \in 1..Len(active_path) : loaded_files[j] = active_path[k]
    /\ \A i, j \in 1..Len(loaded_files) :
           loaded_files[i] = loaded_files[j] => i = j

\* the positions of active_path that were examined and whose name the scan
\* appended, in order
RECURSIVE TakenFrom(_, _)
TakenFrom(k, rest) ==
    IF rest = <<>> THEN TRUE
    ELSE IF k > Len(active_path) \/ ~Examined(k) THEN FALSE
    ELSE \/ active_path[k] = Head(rest) /\ TakenFrom(k + 1, Tail(rest))
         \/ TakenFrom(k + 1, rest)

\* C26, amended: loaded_files is a subsequence of the examined part of
\* active_path (its entries are taken from increasing positions of the path,
\* so a name appears in it at most as often as in the path), and a step
\* changes it only by appending the candidate under examination.
C26_LoadedFilesSubsequence ==
    /\ [](TakenFrom(1, loaded_files))
    /\ [][ loaded_files' # loaded_files =>
               /\ pc = "scan"
               /\ loaded_files' = Append(loaded_files, active_path[idx])
               /\ idx' = idx + 1
         ]_vars

\* a directory listed twice: its file is loaded twice
C26_Witness ==
    /\ pc = "done"
    /\ Len(active_path) = 3
    /\ active_path[1] = active_path[3]
    /\ active_path[1] # active_path[2]
    /\ loaded_files = active_path

\* C28: when no version was requested and the instance has taken one, the
\* file it took it from (the first candidate carrying a version) is in
\* loaded_files.
C28_LockingFileIsLoaded ==
    (version_arg = NoVersion /\ version # NoVersion) =>
        /\ FirstVersioned # 0
        /\ Loaded(active_path[FirstVersioned])

\* a step of get_config from its call to the new instance
GetConfigStep == pc = "call" /\ pc' = "init"

PrefixFilters == {i \in 1..Len(filters) : filters[i].class = "PrefixFilter"}

\* C24: once an instance was made for the identity, its logger carries one
\* PrefixFilter, the filter of the identity, however many instances were
\* made since.
C24_OnePrefixFilter ==
    get_config_calls >= 1 =>
        /\ Cardinality(PrefixFilters) = 1
        /\ \A i \in PrefixFilters : PrefixFilterEq(filters[i], prefix_filter)

\* the second instance of the identity has been made and has loaded
C24_Witness ==
    /\ get_config_calls = 2
    /\ pc = "done"
    /\ Len(filters) = 1

\* C29: a call of get_config leaves the caller's mapping as it was.
C29_LookupOptionsUnchanged ==
    [][ GetConfigStep => lookup_options' = lookup_options ]_vars

\* C27: when load(reload=True) has returned, every option the instance
\* holds is an option of a file of the path as the files are now.
C27_ReloadClearsRemovedKeys ==
    (load_calls >= 2 /\ pc = "done") =>
        \A t \in parser :
            \E k \in 1..Len(active_path) :
                has_option(fs[active_path[k]].doc, t[1], t[2])

\* C30: when a later load() has returned, loaded_files has no entry twice
\* and is a subsequence of active_path, and a later scan starts with the
\* version the instance was made with.
C30_LoadedFilesOfLastScan ==
    /\ (load_calls >= 2 /\ pc = "done") =>
           /\ \A i, j \in 1..Len(loaded_files) :
                  loaded_files[i] = loaded_files[j] => i = j
           /\ TakenFrom(1, loaded_files)
    /\ (load_calls >= 2 /\ pc = "scan" /\ idx = 1) => version = version_arg

====
